---- MODULE Spec2Model ----
(***************************************************************************)
(* Model of the cargo front-end dispatcher (src/bin/cargo.rs): builtin     *)
(* registry, plugin discovery over the ordered search directories,         *)
(* nearest-match suggestion, plugin subprocess execution and the git       *)
(* transport bootstrap.                                                    *)
(*                                                                         *)
(* Strings the code inspects character by character (command names, file  *)
(* names) are sequences of one-character strings.                          *)
(***************************************************************************)
EXTENDS Integers, Sequences, FiniteSets, TLC

VARIABLES
    fs,           \* the file system: directory -> [state, entries]
    path_var,     \* env::var("PATH"): None or Some(sequence of directories)
    exe_ok,       \* whether env::current_exe() succeeds
    fpc,          \* discovery harness: "idle" | "listed" | "found"
    listed,       \* last result of list_commands()
    query,        \* last argument given to find_command
    found,        \* last result of find_command
    pc,           \* position of the dispatcher process
    flags,        \* the Flags decoded for the running `execute`
    depth,        \* number of nested `execute` frames entered
    verbose,      \* shell verbosity (config.shell().set_verbose)
    proxy,        \* result of cargo::ops::http_proxy(config)
    handle_ok,    \* whether cargo::ops::http_handle(config) succeeds
    registered,   \* number of git2_curl::register calls made
    trace,        \* observable events of the run, in order
    errors,       \* error reports rendered by handle_error, in order
    exit_status   \* process exit status

envvars  == <<fs, path_var, exe_ok>>
fsvars   == <<fpc, listed, query, found>>
runvars  == <<pc, flags, depth, verbose, proxy, handle_ok, registered,
              trace, errors, exit_status>>
vars     == <<fs, path_var, exe_ok, fpc, listed, query, found, pc, flags,
              depth, verbose, proxy, handle_ok, registered, trace, errors,
              exit_status>>

----------------------------------------------------------------------------
(* Bounds *)

\* longest PATH (number of entries) drawn for the discovery harness
MaxPathLen == 1

\* deepest nesting of `execute` frames the run may enter
MaxDepth == 2

----------------------------------------------------------------------------
(* Option values and small helpers *)

None == [tag |-> "None"]

Some(x) == [tag |-> "Some", val |-> x]

Min(a, b) == IF a < b THEN a ELSE b

Range(s) == {s[i] : i \in 1..Len(s)}

\* str::starts_with
starts_with(s, p) ==
    /\ Len(p) <= Len(s)
    /\ SubSeq(s, 1, Len(p)) = p

\* str::ends_with
ends_with(s, p) ==
    /\ Len(p) <= Len(s)
    /\ SubSeq(s, Len(s) - Len(p) + 1, Len(s)) = p

\* str::replace("_", "-")
replace(s) == [i \in 1..Len(s) |-> IF s[i] = "_" THEN "-" ELSE s[i]]

----------------------------------------------------------------------------
(* Builtin registry *)

each_subcommand ==
    << <<"b", "e", "n", "c", "h">>,
       <<"b", "u", "i", "l", "d">>,
       <<"c", "l", "e", "a", "n">>,
       <<"d", "o", "c">>,
       <<"f", "e", "t", "c", "h">>,
       <<"g", "e", "n", "e", "r", "a", "t", "e", "_", "l", "o", "c", "k", "f", "i", "l", "e">>,
       <<"g", "i", "t", "_", "c", "h", "e", "c", "k", "o", "u", "t">>,
       <<"h", "e", "l", "p">>,
       <<"l", "o", "c", "a", "t", "e", "_", "p", "r", "o", "j", "e", "c", "t">>,
       <<"l", "o", "g", "i", "n">>,
       <<"n", "e", "w">>,
       <<"o", "w", "n", "e", "r">>,
       <<"p", "a", "c", "k", "a", "g", "e">>,
       <<"p", "k", "g", "i", "d">>,
       <<"p", "u", "b", "l", "i", "s", "h">>,
       <<"r", "e", "a", "d", "_", "m", "a", "n", "i", "f", "e", "s", "t">>,
       <<"r", "u", "n">>,
       <<"s", "e", "a", "r", "c", "h">>,
       <<"t", "e", "s", "t">>,
       <<"u", "p", "d", "a", "t", "e">>,
       <<"v", "e", "r", "i", "f", "y", "_", "p", "r", "o", "j", "e", "c", "t">>,
       <<"v", "e", "r", "s", "i", "o", "n">>,
       <<"y", "a", "n", "k">> >>

\* the names the cmd! / add_cmd! expansions compare against and insert
BuiltinNames == {replace(each_subcommand[i]) : i \in 1..Len(each_subcommand)}

----------------------------------------------------------------------------
(* File system and environment *)

command_prefix == <<"c", "a", "r", "g", "o", "-">>

EXE_SUFFIX == <<>>

LibDir == "exe/../lib/cargo"

ExeDir == "exe"

PathDirs == {"p1"}

Dirs == {LibDir, ExeDir} \cup PathDirs

s_foo == <<"f", "o", "o">>

s_build == <<"b", "u", "i", "l", "d">>

s_help == <<"h", "e", "l", "p">>

s_fo == <<"f", "o">>

FileNames ==
    { command_prefix \o s_foo \o EXE_SUFFIX,
      command_prefix \o s_build \o EXE_SUFFIX,
      s_foo }

\* old_io::FileStat as far as is_executable reads it
FileStats ==
    { [kind |-> "Directory",   perm |-> {"USER_EXECUTE", "GROUP_EXECUTE", "OTHER_EXECUTE"}],
      [kind |-> "RegularFile", perm |-> {}],
      [kind |-> "RegularFile", perm |-> {"USER_EXECUTE"}],
      [kind |-> "RegularFile", perm |-> {"USER_EXECUTE", "GROUP_EXECUTE", "OTHER_EXECUTE"}] }

DirEntries == [name : FileNames, stat : FileStats]

\* what a search directory holds: nothing, or one file
DirContents == {{}} \cup {{e} : e \in DirEntries}

\* a directory is missing, or present and unreadable (its entries can still
\* be stat'ed by full path), or present and readable
DirStates ==
    {[state |-> "missing", entries |-> {}]}
        \cup [state : {"unreadable", "ok"}, entries : DirContents]

RECURSIVE SeqsUpTo(_, _)
SeqsUpTo(S, n) ==
    IF n = 0 THEN {<<>>}
    ELSE LET shorter == SeqsUpTo(S, n - 1)
         IN shorter \cup {Append(s, x) : s \in shorter, x \in S}

PathValues == {None} \cup {Some(p) : p \in SeqsUpTo(PathDirs, MaxPathLen)}

\* dir.join(file)
join(dir, file) == [dir |-> dir, file |-> file]

\* fs::readdir(dir)
readdir(dir) ==
    IF fs[dir].state = "ok"
    THEN Some({join(dir, e.name) : e \in fs[dir].entries})
    ELSE None

\* fs::stat(path)
stat(path) ==
    IF /\ fs[path.dir].state # "missing"
       /\ \E e \in fs[path.dir].entries : e.name = path.file
    THEN Some((CHOOSE e \in fs[path.dir].entries : e.name = path.file).stat)
    ELSE None

\* PathExtensions::exists
exists(path) == stat(path).tag = "Some"

\* env::split_paths
split_paths(val) == val

----------------------------------------------------------------------------
(* Command discovery *)

list_command_directory ==
    (IF exe_ok THEN <<LibDir, ExeDir>> ELSE <<>>)
        \o (IF path_var.tag = "Some" THEN split_paths(path_var.val) ELSE <<>>)

\* variant: any path that can be stat'ed counts as executable
is_executable_any(path) == stat(path).tag = "Some"

is_executable(path) ==
    LET st == stat(path)
    IN /\ st.tag = "Some"
       /\ st.val.kind = "RegularFile"
       /\ "OTHER_EXECUTE" \in st.val.perm

\* variant: the builtin names are not added to the scan's result
list_commands_scan_only ==
    LET dirs == list_command_directory
        scanned ==
            UNION { IF readdir(dirs[i]).tag = "Some"
                    THEN readdir(dirs[i]).val
                    ELSE {} : i \in 1..Len(dirs) }
    IN { SubSeq(entry.file, Len(command_prefix) + 1,
                Len(entry.file) - Len(EXE_SUFFIX)) :
           entry \in { e \in scanned :
                         /\ starts_with(e.file, command_prefix)
                         /\ ends_with(e.file, EXE_SUFFIX)
                         /\ is_executable(e) } }

list_commands ==
    LET dirs == list_command_directory
        scanned ==
            UNION { IF readdir(dirs[i]).tag = "Some"
                    THEN readdir(dirs[i]).val
                    ELSE {} : i \in 1..Len(dirs) }
        plugins ==
            { SubSeq(entry.file, Len(command_prefix) + 1,
                     Len(entry.file) - Len(EXE_SUFFIX)) :
                entry \in { e \in scanned :
                              /\ starts_with(e.file, command_prefix)
                              /\ ends_with(e.file, EXE_SUFFIX)
                              /\ is_executable(e) } }
    IN plugins \cup BuiltinNames

find_command(cmd) ==
    LET command_exe == command_prefix \o cmd \o EXE_SUFFIX
        dirs == list_command_directory
        command_paths == [i \in 1..Len(dirs) |-> join(dirs[i], command_exe)]
        hits == {i \in 1..Len(dirs) : exists(command_paths[i])}
    IN IF hits = {} THEN None
       ELSE Some(command_paths[CHOOSE i \in hits : \A j \in hits : i <= j])

----------------------------------------------------------------------------
(* Discovery harness: the environment is drawn at start, then the two     *)
(* discovery functions are applied to it.                                 *)

Queries == {s_foo, s_build, s_fo}

RunIdle ==
    /\ pc = "off"
    /\ flags = None
    /\ depth = 0
    /\ verbose = FALSE
    /\ proxy = "none"
    /\ handle_ok = TRUE
    /\ registered = 0
    /\ trace = <<>>
    /\ errors = <<>>
    /\ exit_status = 0

InitFs ==
    /\ fs \in [Dirs -> DirStates]
    /\ path_var \in PathValues
    /\ exe_ok \in BOOLEAN
    /\ fpc = "idle"
    /\ listed = {}
    /\ query = <<>>
    /\ found = None
    /\ RunIdle

ListCommands ==
    /\ fpc = "idle"
    /\ listed' = list_commands
    /\ fpc' = "listed"
    /\ UNCHANGED <<query, found>>
    /\ UNCHANGED envvars
    /\ UNCHANGED runvars

FindCommand ==
    /\ fpc = "listed"
    /\ \E cmd \in Queries :
         /\ query' = cmd
         /\ found' = find_command(cmd)
    /\ fpc' = "found"
    /\ UNCHANGED listed
    /\ UNCHANGED envvars
    /\ UNCHANGED runvars

NextFs ==
    \/ ListCommands
    \/ FindCommand

SpecFs == InitFs /\ [][NextFs]_vars

----------------------------------------------------------------------------
(* Suggestion engine *)

RECURSIVE lev_inner(_, _, _, _, _)
\* inner loop of lev_distance over the characters of t; dcol[k + 1] here is
\* the code's dcol[k]
lev_inner(sc, t, dcol, current, j) ==
    IF j > Len(t) THEN dcol
    ELSE LET next == dcol[j + 1]
             cell == IF sc = t[j] THEN current
                     ELSE Min(Min(current, next), dcol[j]) + 1
             ncol == [dcol EXCEPT ![j + 1] = cell]
         \* (the tests on next and ncol only fix the order of evaluation)
         IN IF next >= 0 /\ ncol[j + 1] >= 0
            THEN lev_inner(sc, t, ncol, next, j + 1)
            ELSE ncol

RECURSIVE lev_outer(_, _, _, _)
lev_outer(me, t, dcol, i) ==
    IF i > Len(me) THEN dcol
    ELSE LET ncol == lev_inner(me[i], t, [dcol EXCEPT ![1] = i], i - 1, 1)
         IN IF ncol[1] = i THEN lev_outer(me, t, ncol, i + 1) ELSE ncol

\* cargo::util::lev_distance: insert/delete/substitute distance, unit cost
lev_distance(me, t) ==
    IF me = <<>> THEN Len(t)
    ELSE IF t = <<>> THEN Len(me)
    ELSE lev_outer(me, t, [k \in 1..(Len(t) + 1) |-> k - 1], 1)[Len(t) + 1]

\* variant: any candidate under the threshold, not a closest one
find_closest_any(cmd) ==
    LET close == {c \in list_commands : lev_distance(c, cmd) < 4}
    IN IF close = {} THEN {None} ELSE {Some(c) : c \in close}

\* find_closest: the results `min_by` may produce (which of several
\* equally close candidates it yields is the iterator's choice)
find_closest(cmd) ==
    LET d == [c \in list_commands |-> lev_distance(c, cmd)]
        close == {c \in list_commands : d[c] < 4}
        best  == {c \in close : \A o \in close : d[c] <= d[o]}
    IN IF close = {} THEN {None} ELSE {Some(c) : c \in best}

----------------------------------------------------------------------------
(* Argument decoding and error reporting (cargo library) *)

o_h == <<"-", "h">>

o_help == <<"-", "-", "h", "e", "l", "p">>

o_list == <<"-", "-", "l", "i", "s", "t">>

o_v == <<"-", "v">>

s_cargo == <<"c", "a", "r", "g", "o">>

IsOption(tok) == Len(tok) > 0 /\ tok[1] = "-"

RECURSIVE LeadingOptions(_)
LeadingOptions(toks) ==
    IF toks = <<>> \/ ~IsOption(Head(toks)) THEN 0
    ELSE 1 + LeadingOptions(Tail(toks))

CliError(msg, code) == [msg |-> msg, exit_code |-> code]

\* decoding of an argument vector (program name first) against USAGE:
\* `-h`/`--help` short-circuits into the usage text with exit code 0
flags_from_args(args, options_first) ==
    LET rest == Tail(args)
        lead == LeadingOptions(rest)
        opts == IF options_first THEN SubSeq(rest, 1, lead)
                ELSE SelectSeq(rest, IsOption)
    IN IF \E i \in 1..Len(opts) : opts[i] \in {o_h, o_help}
       THEN [tag |-> "Err", err |-> CliError(<<"USAGE">>, 0)]
       ELSE IF lead = Len(rest)
       THEN IF \A i \in 1..Len(rest) : rest[i] \in {o_list, o_v}
            THEN [tag |-> "Flags",
                  flag_list |-> o_list \in Range(rest),
                  flag_verbose |-> o_v \in Range(rest),
                  arg_command |-> <<>>,
                  arg_args |-> <<>>]
            ELSE [tag |-> "Err", err |-> CliError(<<"Unknown flag">>, 1)]
       ELSE IF lead = 0
       THEN [tag |-> "Flags",
             flag_list |-> FALSE,
             flag_verbose |-> FALSE,
             arg_command |-> rest[1],
             arg_args |-> Tail(rest)]
       ELSE [tag |-> "Err", err |-> CliError(<<"Invalid arguments">>, 1)]

\* cargo::handle_error: one rendered report, and the exit status is set
handle_error(err) ==
    /\ errors' = Append(errors, err)
    /\ exit_status' = err.exit_code

----------------------------------------------------------------------------
(* The dispatcher *)

\* variant: a failed proxy lookup is taken for a configured proxy
init_git_transports_on_err ==
    IF proxy = "none" THEN 0
    ELSE IF ~handle_ok THEN 0
    ELSE 1

\* the git transport registrations one call of init_git_transports makes
init_git_transports ==
    IF proxy # "some" THEN 0
    ELSE IF ~handle_ok THEN 0
    ELSE 1

\* the `match &flags.arg_command[]` arm for a bare or `help` invocation
is_help_invocation(f) ==
    /\ f.arg_command \in {<<>>, s_help}
    /\ Len(f.arg_args) = 0

\* the (args, command) pair the remaining match arms produce, with the two
\* leading inserts applied
normalize(f) ==
    LET pair ==
            IF f.arg_command = s_help /\ f.arg_args[1] \in {o_h, o_help}
            THEN [args |-> f.arg_args, command |-> s_help]
            ELSE IF f.arg_command = s_help
            THEN [args |-> <<o_h>>, command |-> f.arg_args[1]]
            ELSE [args |-> f.arg_args, command |-> f.arg_command]
    IN [command |-> pair.command,
        args |-> <<s_foo, pair.command>> \o pair.args]

\* variant: an installed plugin is preferred over the builtin
dispatch_target_plugin_first(command) ==
    IF find_command(command).tag = "Some" THEN "subcommand"
    ELSE IF \E i \in 1..Len(each_subcommand) : command = replace(each_subcommand[i])
    THEN "builtin"
    ELSE "subcommand"

\* each_subcommand!(cmd) followed by execute_subcommand: which way a
\* command goes
dispatch_target(command) ==
    IF \E i \in 1..Len(each_subcommand) : command = replace(each_subcommand[i])
    THEN "builtin"
    ELSE "subcommand"

ExitCodes == {0, 1, 2, 101, 127, 255}

Signals == {2, 9, 15}

ChildStatuses ==
    [tag : {"ExitStatus"}, code : ExitCodes]
        \cup [tag : {"ExitSignal"}, code : Signals]
        \cup [tag : {"Err"}, kind : {"FileNotFound", "PermissionDenied"}]

\* what spawning `path` can yield: only an executable regular file runs
StatusesFor(path) ==
    {st \in ChildStatuses :
        st.tag \in {"ExitStatus", "ExitSignal"} =>
            /\ stat(path).tag = "Some"
            /\ stat(path).val.kind = "RegularFile"
            /\ stat(path).val.perm # {}}

\* variant: every failing exit is reported with the one code 1
status_error_flat(status) ==
    IF status.tag = "ExitStatus" /\ status.code = 0 THEN None
    ELSE IF status.tag = "ExitStatus"
    THEN Some(CliError(<<>>, 1))
    ELSE IF status.tag = "ExitSignal"
    THEN Some(CliError(<<"subcommand failed with signal: ", status.code>>,
                       status.code))
    ELSE IF status.kind = "FileNotFound"
    THEN Some(CliError(<<"No such subcommand">>, 127))
    ELSE Some(CliError(<<"Subcommand failed to run: ", status.kind>>, 127))

\* variant: a signal is reported shell-style, as 128 + signal
status_error_shell(status) ==
    IF status.tag = "ExitStatus" /\ status.code = 0 THEN None
    ELSE IF status.tag = "ExitStatus"
    THEN Some(CliError(<<>>, status.code))
    ELSE IF status.tag = "ExitSignal"
    THEN Some(CliError(<<"subcommand failed with signal: ", status.code>>,
                       128 + status.code))
    ELSE IF status.kind = "FileNotFound"
    THEN Some(CliError(<<"No such subcommand">>, 127))
    ELSE Some(CliError(<<"Subcommand failed to run: ", status.kind>>, 127))

\* the `match status` of execute_subcommand: the error reported, if any
status_error(status) ==
    IF status.tag = "ExitStatus" /\ status.code = 0 THEN None
    ELSE IF status.tag = "ExitStatus"
    THEN Some(CliError(<<>>, status.code))
    ELSE IF status.tag = "ExitSignal"
    THEN Some(CliError(<<"subcommand failed with signal: ", status.code>>,
                       status.code))
    ELSE IF status.kind = "FileNotFound"
    THEN Some(CliError(<<"No such subcommand">>, 127))
    ELSE Some(CliError(<<"Subcommand failed to run: ", status.kind>>, 127))

\* the message execute_subcommand builds when find_command fails (the
\* format string's pieces, without the quotes it puts around the name)
not_found_msg(closest) ==
    IF closest.tag = "Some"
    THEN <<"No such subcommand\n\n\tDid you mean ", closest.val, "?\n">>
    ELSE <<"No such subcommand">>

s_biuld == <<"b", "i", "u", "l", "d">>

s_xyzzyplugh == <<"x", "y", "z", "z", "y", "p", "l", "u", "g", "h">>

s_read_manifest == <<"r", "e", "a", "d", "_", "m", "a", "n", "i", "f", "e", "s", "t">>

s_qqqq == <<"q", "q", "q", "q">>

CommandInputs ==
    {s_help, s_build, s_foo, s_fo, s_biuld, s_qqqq, s_xyzzyplugh,
     s_read_manifest, replace(s_read_manifest)}

ArgInputs == {<<>>, <<o_h>>, <<s_build>>, <<s_foo>>}

ArgvInputs ==
    { <<s_cargo>>, <<s_cargo, o_list>>, <<s_cargo, o_h>>, <<s_cargo, o_v>>,
      <<s_cargo, o_v, o_list>> }
        \cup {<<s_cargo, c>> \o a : c \in CommandInputs, a \in ArgInputs}

\* results a builtin handler hands to process_executed
BuiltinResults == {None, Some(CliError(<<"builtin failed">>, 101))}

ReadableOrMissing ==
    {[state |-> "missing", entries |-> {}]}
        \cup [state : {"ok"}, entries : DirContents]

FsIdle ==
    /\ fpc = "off"
    /\ listed = {}
    /\ query = <<>>
    /\ found = None

\* what the PATH directory holds in a dispatcher run
PathDirStates ==
    {[state |-> "missing", entries |-> {}]}
        \cup {[state |-> "ok", entries |-> {e}] :
                e \in {x \in DirEntries :
                         /\ starts_with(x.name, command_prefix)
                         /\ x.stat.kind = "RegularFile"
                         /\ "OTHER_EXECUTE" \in x.stat.perm}}

Init ==
    /\ \E a \in ReadableOrMissing, b \in PathDirStates :
         fs = [d \in Dirs |->
                 IF d = LibDir THEN [state |-> "missing", entries |-> {}]
                 ELSE IF d = ExeDir THEN a ELSE b]
    /\ path_var \in {Some(<<d>>) : d \in PathDirs}
    /\ exe_ok = TRUE
    /\ FsIdle
    /\ pc = "main"
    /\ flags = None
    /\ depth = 0
    /\ verbose = FALSE
    /\ proxy \in {"none", "some", "err"}
    /\ handle_ok \in BOOLEAN
    /\ registered = 0
    /\ trace = <<>>
    /\ errors = <<>>
    /\ exit_status = 0

Event(ev) == [ev |-> ev, depth |-> depth]

\* main: execute_main_without_stdin(execute, true, USAGE)
Main ==
    /\ pc = "main"
    /\ \E argv \in ArgvInputs :
         LET r == flags_from_args(argv, TRUE)
         IN IF r.tag = "Flags"
            THEN /\ flags' = r
                 /\ depth' = 1
                 /\ pc' = "execute"
                 /\ UNCHANGED <<errors, exit_status>>
            ELSE /\ handle_error(r.err)
                 /\ pc' = "done"
                 /\ UNCHANGED <<flags, depth>>
    /\ UNCHANGED <<verbose, proxy, handle_ok, registered, trace>>
    /\ UNCHANGED envvars
    /\ UNCHANGED fsvars

\* variant: failing to build the network handle ends the invocation
InitGitTransports_abort ==
    /\ pc = "execute"
    /\ verbose' = flags.flag_verbose
    /\ registered' = registered + init_git_transports
    /\ trace' = Append(trace, Event("init_git_transports"))
    /\ IF proxy = "some" /\ ~handle_ok
       THEN /\ pc' = "done"
            /\ handle_error(CliError(<<"no network handle">>, 101))
       ELSE /\ pc' = "dispatch"
            /\ UNCHANGED <<errors, exit_status>>
    /\ UNCHANGED <<flags, depth, proxy, handle_ok>>
    /\ UNCHANGED envvars
    /\ UNCHANGED fsvars

\* execute, up to and including the call of init_git_transports
InitGitTransports ==
    /\ pc = "execute"
    /\ verbose' = flags.flag_verbose
    /\ registered' = registered + init_git_transports
    /\ trace' = Append(trace, Event("init_git_transports"))
    /\ pc' = "dispatch"
    /\ UNCHANGED <<flags, depth, proxy, handle_ok, errors, exit_status>>
    /\ UNCHANGED envvars
    /\ UNCHANGED fsvars

\* execute: the `--list` branch
ListBranch ==
    /\ pc = "dispatch"
    /\ flags.flag_list
    /\ trace' = Append(trace, Event("list") @@ [out |-> list_commands])
    /\ pc' = "done"
    /\ UNCHANGED <<flags, depth, verbose, proxy, handle_ok, registered,
                   errors, exit_status>>
    /\ UNCHANGED envvars
    /\ UNCHANGED fsvars

\* execute: the bare / `help` branch, which runs `execute` again on
\* ["foo", "-h"] through call_main_without_stdin
HelpBranch ==
    /\ pc = "dispatch"
    /\ ~flags.flag_list
    /\ is_help_invocation(flags)
    /\ verbose' = TRUE
    /\ trace' = Append(trace, Event("help"))
    /\ LET r == flags_from_args(<<s_foo, o_h>>, FALSE)
       IN IF r.tag = "Flags" /\ depth < MaxDepth
          THEN /\ flags' = r
               /\ depth' = depth + 1
               /\ pc' = "execute"
               /\ UNCHANGED <<errors, exit_status>>
          ELSE /\ IF r.tag = "Err"
                  THEN handle_error(r.err)
                  ELSE UNCHANGED <<errors, exit_status>>
               /\ pc' = "done"
               /\ UNCHANGED <<flags, depth>>
    /\ UNCHANGED <<proxy, handle_ok, registered>>
    /\ UNCHANGED envvars
    /\ UNCHANGED fsvars

\* execute: a builtin handler is run in-process
BuiltinBranch ==
    /\ pc = "dispatch"
    /\ ~flags.flag_list
    /\ ~is_help_invocation(flags)
    /\ dispatch_target(normalize(flags).command) = "builtin"
    /\ verbose' = TRUE
    /\ trace' = Append(trace, Event("builtin") @@
                                [command |-> normalize(flags).command,
                                 args |-> normalize(flags).args])
    /\ \E r \in BuiltinResults :
         IF r.tag = "Some"
         THEN handle_error(r.val)
         ELSE UNCHANGED <<errors, exit_status>>
    /\ pc' = "done"
    /\ UNCHANGED <<flags, depth, proxy, handle_ok, registered>>
    /\ UNCHANGED envvars
    /\ UNCHANGED fsvars

\* execute_subcommand when find_command yields no path
SubcommandNotFound ==
    /\ pc = "dispatch"
    /\ ~flags.flag_list
    /\ ~is_help_invocation(flags)
    /\ dispatch_target(normalize(flags).command) = "subcommand"
    /\ find_command(normalize(flags).command) = None
    /\ \E closest \in find_closest(normalize(flags).command) :
         handle_error(CliError(not_found_msg(closest), 127))
    /\ trace' = Append(trace, Event("not_found") @@
                                [command |-> normalize(flags).command])
    /\ pc' = "done"
    /\ UNCHANGED <<flags, depth, verbose, proxy, handle_ok, registered>>
    /\ UNCHANGED envvars
    /\ UNCHANGED fsvars

\* execute_subcommand when find_command yields a path: spawn, wait, report
SubcommandRun ==
    /\ pc = "dispatch"
    /\ ~flags.flag_list
    /\ ~is_help_invocation(flags)
    /\ dispatch_target(normalize(flags).command) = "subcommand"
    /\ find_command(normalize(flags).command) # None
    /\ LET path == find_command(normalize(flags).command).val
       IN \E status \in StatusesFor(path) :
            /\ trace' = Append(trace, Event("spawn") @@
                                        [command |-> normalize(flags).command,
                                         path |-> path,
                                         args |-> normalize(flags).args,
                                         status |-> status])
            /\ IF status_error(status).tag = "Some"
               THEN handle_error(status_error(status).val)
               ELSE UNCHANGED <<errors, exit_status>>
    /\ pc' = "done"
    /\ UNCHANGED <<flags, depth, verbose, proxy, handle_ok, registered>>
    /\ UNCHANGED envvars
    /\ UNCHANGED fsvars

Next ==
    \/ Main
    \/ InitGitTransports
    \/ ListBranch
    \/ HelpBranch
    \/ BuiltinBranch
    \/ SubcommandNotFound
    \/ SubcommandRun

Spec == Init /\ [][Next]_vars

----------------------------------------------------------------------------
(* Properties of command discovery (checked under SpecFs) *)

\* the plugin names a readable directory contributes: the regular files
\* `cargo-<name>` whose permission bits include execute-by-others
PluginNamesIn(dir) ==
    IF fs[dir].state # "ok" THEN {}
    ELSE { SubSeq(e.name, Len(command_prefix) + 1, Len(e.name) - Len(EXE_SUFFIX)) :
             e \in { x \in fs[dir].entries :
                       /\ starts_with(x.name, command_prefix)
                       /\ x.stat.kind = "RegularFile"
                       /\ "OTHER_EXECUTE" \in x.stat.perm } }

\* C2: whatever the search directories hold (nothing, unreadable, missing,
\* arbitrary files) and whatever PATH is, the set list_commands returns
\* contains every builtin command name.
C2_ListContainsBuiltins ==
    fpc # "idle" =>
        \A i \in 1..Len(each_subcommand) : replace(each_subcommand[i]) \in listed

\* C2 witness: list_commands has run with no directory readable.
C2_Witness ==
    /\ fpc = "listed"
    /\ exe_ok
    /\ \A d \in Dirs : fs[d].state \in {"missing", "unreadable"}
    /\ fs[ExeDir].state = "unreadable"
    /\ s_build \in listed

\* a regular file with at least one execute permission bit set
IsRegularExecutable(st) ==
    /\ st.kind = "RegularFile"
    /\ st.perm # {}

\* search-directory positions where `cargo-<cmd>` is a regular executable
ExecutablePositions(cmd) ==
    {i \in 1..Len(list_command_directory) :
        LET d == list_command_directory[i]
        IN /\ fs[d].state # "missing"
           /\ \E e \in fs[d].entries :
                /\ e.name = command_prefix \o cmd \o EXE_SUFFIX
                /\ IsRegularExecutable(e.stat)}

\* C6: find_command(name) returns <dir>/cargo-<name> for the first search
\* directory in which that path is a regular file with an execute bit; a
\* path that is a directory or a file without execute bit is never returned;
\* none is returned when no directory holds such a file.
C6_FindFirstExecutable ==
    fpc = "found" =>
        LET pos == ExecutablePositions(query)
        IN IF pos = {} THEN found = None
           ELSE found = Some(join(list_command_directory[
                                    CHOOSE i \in pos : \A j \in pos : i <= j],
                                  command_prefix \o query \o EXE_SUFFIX))

\* C7: every name list_commands returns is resolved by find_command.
C7_ListedIsFindable ==
    (fpc = "found" /\ query \in listed) => found.tag = "Some"

\* PATH contributes no directory
PathEmpty == path_var = None \/ path_var = Some(<<>>)

\* C10 as stated: with an empty PATH and no ../lib/cargo directory,
\* list_commands returns exactly the builtin names, whatever the remaining
\* search directory holds.
C10_Original ==
    (fpc # "idle" /\ PathEmpty /\ fs[LibDir].state = "missing") =>
        listed = BuiltinNames

\* C10 amended: with an empty PATH and no ../lib/cargo directory,
\* list_commands returns exactly the builtin names together with the names
\* of the plugin executables found in the executable's own directory.
C10_Amended ==
    (fpc # "idle" /\ PathEmpty /\ fs[LibDir].state = "missing") =>
        listed = BuiltinNames \cup (IF exe_ok THEN PluginNamesIn(ExeDir) ELSE {})

\* C10 witness: the executable's own directory holds a plugin executable.
C10_Witness ==
    /\ fpc = "listed"
    /\ PathEmpty
    /\ fs[LibDir].state = "missing"
    /\ exe_ok
    /\ PluginNamesIn(ExeDir) = {s_foo}
    /\ listed = BuiltinNames \cup {s_foo}

----------------------------------------------------------------------------
(* Properties of the dispatcher (checked under Spec) *)

LastEvent == trace[Len(trace)]

\* the run went through the command match of `execute` to its end
Dispatched ==
    /\ pc = "done"
    /\ flags.tag = "Flags"
    /\ ~flags.flag_list
    /\ ~is_help_invocation(flags)

\* some search directory holds a file `cargo-<cmd>`
PluginFilePresent(cmd) ==
    \E i \in 1..Len(list_command_directory) :
        LET d == list_command_directory[i]
        IN /\ fs[d].state # "missing"
           /\ \E e \in fs[d].entries : e.name = command_prefix \o cmd \o EXE_SUFFIX

\* C1: a command name that is a builtin and also present as a plugin file
\* cargo-<name> is run by its in-process builtin handler; execute_subcommand
\* is never reached for it and the plugin is never spawned.
C1_BuiltinPriority ==
    /\ \A i \in 1..Len(trace) :
         trace[i].ev \in {"spawn", "not_found"} =>
             trace[i].command \notin BuiltinNames
    /\ (/\ Dispatched
        /\ normalize(flags).command \in BuiltinNames
        /\ PluginFilePresent(normalize(flags).command))
           => /\ LastEvent.ev = "builtin"
              /\ LastEvent.command = normalize(flags).command

\* C1 witness: `build` was run in-process while an executable cargo-build
\* sits in a search directory.
C1_Witness ==
    /\ Dispatched
    /\ LastEvent.ev = "builtin"
    /\ LastEvent.command = s_build
    /\ find_command(s_build).tag = "Some"
    /\ is_executable(find_command(s_build).val)

\* C3: a spawned plugin that exits normally with code N leaves the
\* dispatcher's exit code at exactly N; N = 0 reports no error, N # 0
\* reports one error carrying code N and an empty message.
C3_ExitCodePassthrough ==
    (/\ pc = "done"
     /\ Len(trace) > 0
     /\ LastEvent.ev = "spawn"
     /\ LastEvent.status.tag = "ExitStatus")
        => LET n == LastEvent.status.code
           IN /\ exit_status = n
              /\ n = 0 => errors = <<>>
              /\ n # 0 => /\ Len(errors) = 1
                          /\ errors[1].exit_code = n
                          /\ Len(errors[1].msg) = 0

\* C3 witness: a plugin exited with 255 and the dispatcher's status is 255.
C3_Witness ==
    /\ pc = "done"
    /\ Len(trace) > 0
    /\ LastEvent.ev = "spawn"
    /\ LastEvent.status = [tag |-> "ExitStatus", code |-> 255]
    /\ exit_status = 255

\* C4: a spawned plugin terminated by signal S makes the dispatcher report
\* exactly one error, whose exit code is S and whose message mentions S.
C4_SignalPassthrough ==
    (/\ pc = "done"
     /\ Len(trace) > 0
     /\ LastEvent.ev = "spawn"
     /\ LastEvent.status.tag = "ExitSignal")
        => LET sig == LastEvent.status.code
           IN /\ Len(errors) = 1
              /\ errors[1].exit_code = sig
              /\ exit_status = sig
              /\ Len(errors[1].msg) = 2
              /\ errors[1].msg[2] = sig

\* C4 witness: a plugin was killed by signal 9.
C4_Witness ==
    /\ pc = "done"
    /\ Len(trace) > 0
    /\ LastEvent.ev = "spawn"
    /\ LastEvent.status = [tag |-> "ExitSignal", code |-> 9]
    /\ exit_status = 9

\* C5: a command that is neither a builtin nor resolvable to a plugin path
\* is reported with exit code 127; the message carries a suggestion iff some
\* listed command is at edit distance < 4, the suggested name is then a
\* listed command of minimum distance, and otherwise the message is just
\* "No such subcommand".
C5_UnknownCommand ==
    (/\ Dispatched
     /\ normalize(flags).command \notin BuiltinNames
     /\ ~PluginFilePresent(normalize(flags).command))
        => LET cmd  == normalize(flags).command
               dist == [c \in list_commands |-> lev_distance(c, cmd)]
               near == {c \in list_commands : dist[c] < 4}
           IN /\ LastEvent.ev = "not_found"
              /\ Len(errors) = 1
              /\ errors[1].exit_code = 127
              /\ exit_status = 127
              /\ near = {} => /\ Len(errors[1].msg) = 1
                              /\ errors[1].msg[1] = "No such subcommand"
              /\ near # {} => /\ Len(errors[1].msg) = 3
                              /\ errors[1].msg[2] \in near
                              /\ \A o \in list_commands :
                                   dist[errors[1].msg[2]] <= dist[o]

\* C5 witness: `read_manifest` is unknown and `read-manifest` is suggested.
C5_Witness ==
    /\ Dispatched
    /\ normalize(flags).command = s_read_manifest
    /\ LastEvent.ev = "not_found"
    /\ Len(errors[1].msg) = 3
    /\ errors[1].msg[2] = replace(s_read_manifest)

\* C8: over one process run the git transport is registered at most once,
\* and only if a proxy is configured (never without one, never after a
\* failed proxy lookup).
C8_RegisterAtMostOnce ==
    /\ registered <= 1
    /\ registered > 0 => proxy = "some"
    /\ proxy \in {"none", "err"} => registered = 0

\* C8 witness: the bare/`help` path has run with a proxy configured and the
\* transport is registered once.
C8_Witness ==
    /\ pc = "done"
    /\ proxy = "some"
    /\ registered = 1
    /\ Len(trace) > 0
    /\ LastEvent.ev = "help"

DispatchEvents == {"list", "help", "builtin", "spawn", "not_found"}

\* C9: in every run of execute the call of init_git_transports is complete
\* before any dispatch branch begins, and a failure to construct the network
\* handle does not end the invocation: dispatch still takes place.
C9_InitBeforeDispatch ==
    /\ \A i \in 1..Len(trace) :
         trace[i].ev \in DispatchEvents =>
             \E j \in 1..(i - 1) :
                 /\ trace[j].ev = "init_git_transports"
                 /\ trace[j].depth = trace[i].depth
    /\ (pc = "done" /\ flags.tag = "Flags") =>
           \E i \in 1..Len(trace) : trace[i].ev \in DispatchEvents

\* C9 witness: the network handle could not be built and a plugin was
\* spawned all the same, after init_git_transports.
C9_Witness ==
    /\ pc = "done"
    /\ proxy = "some"
    /\ ~handle_ok
    /\ Len(trace) = 2
    /\ trace[1].ev = "init_git_transports"
    /\ trace[2].ev = "spawn"

====
